---- MODULE Spec2Model ----
(***************************************************************************)
(* Model of app/services/vector_store.py: the VectorStore class, a FAISS   *)
(* IndexFlatL2 plus a document_id -> {faiss_id, metadata} dict, persisted  *)
(* as two files (faiss_index.bin, metadata.pkl) after every mutation.      *)
(*                                                                         *)
(* Positions are 0-based as in the code (faiss_id = index.ntotal - 1); the *)
(* vector at position p is xb[p + 1].  A Python dict is a sequence of      *)
(* entries in insertion order with unique keys.  A similarity s stands for *)
(* the number s / Scale.                                                   *)
(***************************************************************************)
EXTENDS Integers, Sequences, FiniteSets

\* ---------------------------------------------------------------- bounds
\* add_document is not taken once the index holds MaxVectors vectors.
MaxVectors == 3

\* ------------------------------------------------------------ input sets
Dims == {1, 2}
DocIds == {"d1", "d2"}
Embeddings == {<<0>>, <<10>>, <<0, 0>>}
\* a stored vector, one at distances 1 and 81 of the stored ones, and one of
\* the other length
Queries == {<<0>>, <<1>>, <<0, 0>>}
MetaArgs == {"None", "{k:v}"}
\* limits below, at and above the number of vectors an index can hold
Limits == {0, 1, 2, MaxVectors, MaxVectors + 1}
\* a death before the first write leaves what ProcessCrash leaves
Threads == {1, 2}
CrashPoints == {"index_torn", "after_index", "metadata_torn"}

\* ------------------------------------------------------------- constants
\* the divisor of the similarity score
Scale == 100

None == "None"
EmptyDict == "{}"
FLT_MAX == "FLT_MAX"

VARIABLES
    running,        \* TRUE while a process holds a constructed VectorStore
    dimension,      \* self.dimension
    index,          \* self.index: [d, xb]
    metadata,       \* self.metadata: entries [document_id, faiss_id, metadata]
    index_file,     \* faiss_index.bin on disk
    metadata_file,  \* metadata.pkl on disk
    last,           \* the last call made, its arguments and its outcome
    deleted,        \* history: the ids delete_document returned True for and
                    \* no add_document has returned for since
    high,           \* history: the highest position add_document has
                    \* returned, -1 before the first
    pc,             \* concurrent callers: the statement each thread is at
    frame,          \* concurrent callers: each thread's arguments and idx
    raced           \* history: a thread read index.ntotal while the other
                    \* had appended and not yet read

vars == <<running, dimension, index, metadata, index_file, metadata_file,
          last, deleted, high, pc, frame, raced>>

\* the state of the concurrent callers, unused by the sequential actions
concvars == <<pc, frame, raced>>

\* ----------------------------------------------------------------- helpers
MinOf(S) == CHOOSE x \in S : \A y \in S : x <= y

Min(a, b) == IF a <= b THEN a ELSE b

Max(a, b) == IF a >= b THEN a ELSE b

RECURSIVE SqL2(_, _)
\* squared Euclidean distance of two vectors of the same length
SqL2(x, y) ==
    IF Len(x) = 0 THEN 0
    ELSE (x[1] - y[1]) * (x[1] - y[1]) + SqL2(Tail(x), Tail(y))

\* ------------------------------------------------------------ faiss index
IndexFlatL2(d) == [d |-> d, xb |-> <<>>]

ntotal(ix) == Len(ix.xb)

\* index.add(x) for one vector x of length ix.d
IndexAdd(ix, x) == [ix EXCEPT !.xb = Append(@, x)]

RECURSIVE Distances(_, _)
\* the distance of q to each stored vector, in position order
Distances(xb, q) ==
    IF xb = <<>> THEN <<>>
    ELSE <<SqL2(q, Head(xb))>> \o Distances(Tail(xb), q)

\* position p comes before position r in a search result, dist being the
\* distances of the stored vectors to the query: closest first, the lower
\* position first among equals
Closer(dist, p, r) ==
    dist[p + 1] < dist[r + 1] \/ (dist[p + 1] = dist[r + 1] /\ p < r)

RECURSIVE Nearest(_, _, _)
\* the k first of the positions in rest, as (distance, idx) pairs
Nearest(dist, rest, k) ==
    IF k = 0 \/ rest = {} THEN <<>>
    ELSE LET best == CHOOSE p \in rest : \A r \in rest \ {p} : Closer(dist, p, r)
         IN  <<[distance |-> dist[best + 1], idx |-> best]>>
                \o Nearest(dist, rest \ {best}, k - 1)

RECURSIVE Padding(_)
\* the rows of a search result for which the index has no vector
Padding(m) ==
    IF m <= 0 THEN <<>>
    ELSE <<[distance |-> FLT_MAX, idx |-> -1]>> \o Padding(m - 1)

\* index.search(q, k): k (distance, idx) pairs, closest first; when the index
\* holds fewer than k vectors the tail is padded with idx -1
IndexSearch(ix, q, k) ==
    Nearest(Distances(ix.xb, q), 0..(ntotal(ix) - 1), k) \o Padding(k - ntotal(ix))

\* ------------------------------------------------------------ Python dict
Keys(md) == {md[i].document_id : i \in DOMAIN md}

Lookup(md, key) == md[CHOOSE i \in DOMAIN md : md[i].document_id = key]

\* md[key] = value: an existing key keeps its place, a new one goes last
DictSet(md, key, value) ==
    LET entry == [document_id |-> key,
                  faiss_id |-> value.faiss_id,
                  metadata |-> value.metadata]
    IN  IF key \in Keys(md)
        THEN [i \in DOMAIN md |-> IF md[i].document_id = key THEN entry ELSE md[i]]
        ELSE Append(md, entry)

\* del md[key]
DictDel(md, key) ==
    LET keep(e) == e.document_id # key
    IN  SelectSeq(md, keep)

\* Contains answering True for every key
ContainsAlways(md, key) == TRUE

\* key in md
Contains(md, key) == key \in Keys(md)

\* ------------------------------------------------------------------ files
NoFile == [kind |-> "absent"]
Torn == [kind |-> "torn"]

Exists(f) == f.kind # "absent"

\* faiss.write_index / faiss.read_index
WriteIndex(ix) ==
    [kind |-> "faiss", d |-> ix.d, ntotal |-> ntotal(ix), xb |-> ix.xb]

ReadIndex(f) == [d |-> f.d, xb |-> SubSeq(f.xb, 1, f.ntotal)]

\* pickle.dump / pickle.load
PickleDump(md) == [kind |-> "pickle", obj |-> md]

PickleLoad(f) == f.obj

\* ------------------------------------------------------------ VectorStore
\* NewPosition one short
NewPositionOneShort(ix) == Max(ntotal(ix) - 2, 0)

\* NewPosition without the - 1
NewPositionPastEnd(ix) == ntotal(ix)

\* idx = self.index.ntotal - 1, read after the append
NewPosition(ix) == ntotal(ix) - 1

\* the in-memory part of add_document: index.add, then the dict entry
AddMem(ix, md, document_id, embedding, meta) ==
    LET ix2 == IndexAdd(ix, embedding)
        idx == NewPosition(ix2)
        value == [faiss_id |-> idx,
                  metadata |-> IF meta = None THEN EmptyDict ELSE meta]
    IN  [index |-> ix2, metadata |-> DictSet(md, document_id, value), idx |-> idx]

\* DelMem with the del statement left out
DelMemKeepsEntry(ix, md, document_id) ==
    [index |-> ix, metadata |-> md]

\* DelMem taking the vector out of the index as well and moving the later
\* positions down by one
DelMemCompacts(ix, md, document_id) ==
    LET pos == Lookup(md, document_id).faiss_id
        rest == DictDel(md, document_id)
    IN  [index |-> [ix EXCEPT !.xb = SubSeq(@, 1, pos) \o SubSeq(@, pos + 2, Len(@))],
         metadata |-> [i \in DOMAIN rest |->
                          [rest[i] EXCEPT !.faiss_id = IF @ > pos THEN @ - 1 ELSE @]]]

\* the in-memory part of delete_document
DelMem(ix, md, document_id) ==
    [index |-> ix, metadata |-> DictDel(md, document_id)]

\* save_index without the write of the metadata file
save_index_IndexOnly(ix, md, cp) ==
    [index_file |-> IF cp = "index_torn" THEN Torn ELSE WriteIndex(ix),
     metadata_file |-> metadata_file]

\* save_index writing the metadata file first and the index file second
save_index_MetadataFirst(ix, md, cp) ==
    CASE cp = "done" ->
            [index_file |-> WriteIndex(ix), metadata_file |-> PickleDump(md)]
      [] cp = "index_torn" ->
            [index_file |-> Torn, metadata_file |-> PickleDump(md)]
      [] cp = "after_index" ->
            [index_file |-> index_file, metadata_file |-> PickleDump(md)]
      [] cp = "metadata_torn" ->
            [index_file |-> index_file, metadata_file |-> Torn]

\* _save_index, run to completion ("done") or cut short by the death of the
\* process at crash point cp: the index file is written first, the metadata
\* file second, each in place
save_index(ix, md, cp) ==
    CASE cp = "done" ->
            [index_file |-> WriteIndex(ix), metadata_file |-> PickleDump(md)]
      [] cp = "index_torn" ->
            [index_file |-> Torn, metadata_file |-> metadata_file]
      [] cp = "after_index" ->
            [index_file |-> WriteIndex(ix), metadata_file |-> metadata_file]
      [] cp = "metadata_torn" ->
            [index_file |-> WriteIndex(ix), metadata_file |-> Torn]

\* the document entry search resolves position idx to: the first entry, in
\* dict order, whose faiss_id is idx
Resolve(md, idx) ==
    LET hits == {i \in DOMAIN md : md[i].faiss_id = idx}
    IN  IF hits = {} THEN None ELSE md[MinOf(hits)].document_id

\* 1.0 - min(distance / 100.0, 1.0), in units of 1 / Scale
Similarity(distance) == Scale - Min(distance, Scale)

\* the rank search gives to row i (1-based) of the index's answer: i + 1 for
\* the 0-based counter of enumerate
Rank(i) == i

RECURSIVE CollectReversed(_, _, _)
\* Collect putting each row in front of the list instead of at its end
CollectReversed(found, md, i) ==
    IF i > Len(found) THEN <<>>
    ELSE LET document_id == Resolve(md, found[i].idx)
         IN  CollectReversed(found, md, i + 1) \o
             (IF document_id # None /\ document_id # ""
              THEN <<[document_id |-> document_id,
                      similarity |-> Similarity(found[i].distance),
                      metadata |-> Lookup(md, document_id).metadata,
                      rank |-> Rank(i)]>>
              ELSE <<>>)

RECURSIVE Collect(_, _, _)
\* the loop of search over the rows i.. of the index's answer: a row whose
\* position resolves to a document is appended, the others are skipped
Collect(found, md, i) ==
    IF i > Len(found) THEN <<>>
    ELSE LET document_id == Resolve(md, found[i].idx)
         IN  (IF document_id # None /\ document_id # ""
              THEN <<[document_id |-> document_id,
                      similarity |-> Similarity(found[i].distance),
                      metadata |-> Lookup(md, document_id).metadata,
                      rank |-> Rank(i)]>>
              ELSE <<>>) \o Collect(found, md, i + 1)

\* SearchResults asking the index for all its vectors, whatever the limit
SearchResultsNoLimit(ix, md, query_embedding, limit) ==
    Collect(IndexSearch(ix, query_embedding, ntotal(ix)), md, 1)

\* the result list of search, for a query the dimension checks accept
SearchResults(ix, md, query_embedding, limit) ==
    Collect(IndexSearch(ix, query_embedding, limit), md, 1)

\* DimensionMismatch with the comparison left out
DimensionMismatchNever(embedding, dim) == FALSE

\* the check of add_document and of search on the length of the embedding
\* they are given (index.add and index.search make their own after it)
DimensionMismatch(embedding, dim) == Len(embedding) # dim

\* search(query_embedding, limit) on a store: what it raises, or its results
SearchCall(dim, ix, md, query_embedding, limit) ==
    IF DimensionMismatch(query_embedding, dim)
    THEN [status |-> "ValueError", results |-> <<>>]
    ELSE IF Len(query_embedding) # ix.d
    THEN [status |-> "AssertionError", results |-> <<>>]
    ELSE [status |-> "ok",
          results |-> SearchResults(ix, md, query_embedding, limit)]

\* the outcomes search can have: with limit 0 the call of index.search either
\* answers with no rows or fails its k > 0 assertion, by the release of faiss
SearchOutcomes(dim, ix, md, query_embedding, limit) ==
    LET out == SearchCall(dim, ix, md, query_embedding, limit)
    IN  IF limit = 0 /\ out.status = "ok"
        THEN {out, [status |-> "AssertionError", results |-> <<>>]}
        ELSE {out}

\* NewVectorStore never loading the files
NewVectorStoreAlwaysEmpty(d) ==
    [ok |-> TRUE, index |-> IndexFlatL2(d), metadata |-> <<>>]

\* __init__: both files are loaded when both exist (a file cut short makes
\* the load raise), and an empty store is made otherwise
NewVectorStore(d) ==
    IF Exists(index_file) /\ Exists(metadata_file)
    THEN IF index_file = Torn \/ metadata_file = Torn
         THEN [ok |-> FALSE, index |-> IndexFlatL2(d), metadata |-> <<>>]
         ELSE [ok |-> TRUE,
               index |-> ReadIndex(index_file),
               metadata |-> PickleLoad(metadata_file)]
    ELSE [ok |-> TRUE, index |-> IndexFlatL2(d), metadata |-> <<>>]

get_document_count(ix) == ntotal(ix)

\* ------------------------------------------------------------- call records
\* the locals of a thread that is not inside add_document
NoFrame == [document_id |-> None, embedding |-> <<>>, metadata |-> None, idx |-> -1]

Call(op) ==
    [op |-> op, document_id |-> None, embedding |-> <<>>, metadata |-> None,
     limit |-> 0, status |-> "ok", idx |-> -1, returned |-> FALSE,
     crash_point |-> None, results |-> <<>>]

Init ==
    /\ running = TRUE
    /\ dimension \in Dims
    /\ index = IndexFlatL2(dimension)
    /\ metadata = <<>>
    /\ index_file = NoFile
    /\ metadata_file = NoFile
    /\ last = Call("construct")
    /\ deleted = {}
    /\ high = -1
    /\ pc = [t \in Threads |-> "idle"]
    /\ frame = [t \in Threads |-> NoFrame]
    /\ raced = FALSE

\* ------------------------------------------------------------------ actions
\* VectorStore(index_path, dimension = d) in a new process
Construct(d) ==
    LET store == NewVectorStore(d)
    IN
    /\ UNCHANGED concvars
    /\ ~running
    /\ dimension' = d
    /\ running' = store.ok
    /\ index' = store.index
    /\ metadata' = store.metadata
    /\ last' = [Call("construct") EXCEPT
                    !.status = IF store.ok THEN "ok" ELSE "LoadError"]
    /\ UNCHANGED <<index_file, metadata_file, deleted, high>>

\* the process dies between two calls: the in-memory store is lost
ProcessCrash ==
    /\ UNCHANGED concvars
    /\ running
    /\ running' = FALSE
    /\ index' = IndexFlatL2(dimension)
    /\ metadata' = <<>>
    /\ last' = [Call("crash") EXCEPT !.status = "crash"]
    /\ UNCHANGED <<dimension, index_file, metadata_file, deleted, high>>

\* add_document(document_id, embedding, meta), returning or raising
add_document(document_id, embedding, meta) ==
    LET call == [Call("add") EXCEPT !.document_id = document_id,
                                    !.embedding = embedding,
                                    !.metadata = meta]
    IN
    /\ UNCHANGED concvars
    /\ running
    /\ IF DimensionMismatch(embedding, dimension)
       THEN /\ last' = [call EXCEPT !.status = "ValueError"]
            /\ UNCHANGED <<running, dimension, index, metadata,
                           index_file, metadata_file, deleted, high>>
       ELSE IF Len(embedding) # index.d
       THEN /\ last' = [call EXCEPT !.status = "AssertionError"]
            /\ UNCHANGED <<running, dimension, index, metadata,
                           index_file, metadata_file, deleted, high>>
       ELSE LET mem == AddMem(index, metadata, document_id, embedding, meta)
                disk == save_index(mem.index, mem.metadata, "done")
            IN  /\ ntotal(index) < MaxVectors
                /\ index' = mem.index
                /\ metadata' = mem.metadata
                /\ index_file' = disk.index_file
                /\ metadata_file' = disk.metadata_file
                /\ last' = [call EXCEPT !.idx = mem.idx]
                /\ deleted' = deleted \ {document_id}
                /\ high' = Max(high, mem.idx)
                /\ UNCHANGED <<running, dimension>>

\* add_document whose process dies at crash point cp of its _save_index
add_document_crash(document_id, embedding, meta, cp) ==
    LET call == [Call("add") EXCEPT !.document_id = document_id,
                                    !.embedding = embedding,
                                    !.metadata = meta,
                                    !.status = "crash",
                                    !.crash_point = cp]
        mem == AddMem(index, metadata, document_id, embedding, meta)
        disk == save_index(mem.index, mem.metadata, cp)
    IN
    /\ UNCHANGED concvars
    /\ running
    /\ ~DimensionMismatch(embedding, dimension)
    /\ Len(embedding) = index.d
    /\ ntotal(index) < MaxVectors
    /\ running' = FALSE
    /\ index' = IndexFlatL2(dimension)
    /\ metadata' = <<>>
    /\ index_file' = disk.index_file
    /\ metadata_file' = disk.metadata_file
    /\ last' = call
    /\ UNCHANGED <<dimension, deleted, high>>

\* delete_document(document_id), returning True or False
delete_document(document_id) ==
    LET call == [Call("delete") EXCEPT !.document_id = document_id]
    IN
    /\ UNCHANGED concvars
    /\ running
    /\ IF ~Contains(metadata, document_id)
       THEN /\ last' = call
            /\ UNCHANGED <<running, dimension, index, metadata,
                           index_file, metadata_file, deleted, high>>
       ELSE LET mem == DelMem(index, metadata, document_id)
                disk == save_index(mem.index, mem.metadata, "done")
            IN  /\ metadata' = mem.metadata
                /\ index_file' = disk.index_file
                /\ metadata_file' = disk.metadata_file
                /\ last' = [call EXCEPT !.returned = TRUE]
                /\ index' = mem.index
                /\ deleted' = deleted \cup {document_id}
                /\ UNCHANGED <<running, dimension, high>>

\* delete_document whose process dies at crash point cp of its _save_index
delete_document_crash(document_id, cp) ==
    LET call == [Call("delete") EXCEPT !.document_id = document_id,
                                       !.status = "crash",
                                       !.crash_point = cp]
        mem == DelMem(index, metadata, document_id)
        disk == save_index(mem.index, mem.metadata, cp)
    IN
    /\ UNCHANGED concvars
    /\ running
    /\ Contains(metadata, document_id)
    /\ running' = FALSE
    /\ index' = IndexFlatL2(dimension)
    /\ metadata' = <<>>
    /\ index_file' = disk.index_file
    /\ metadata_file' = disk.metadata_file
    /\ last' = call
    /\ UNCHANGED <<dimension, deleted, high>>

\* search(query_embedding, limit)
search(query_embedding, limit) ==
    LET call == [Call("search") EXCEPT !.embedding = query_embedding,
                                       !.limit = limit]
    IN
    /\ UNCHANGED concvars
    /\ running
    /\ \E out \in SearchOutcomes(dimension, index, metadata, query_embedding, limit) :
            last' = [call EXCEPT !.status = out.status, !.results = out.results]
    /\ UNCHANGED <<running, dimension, index, metadata,
                   index_file, metadata_file, deleted, high>>

Next ==
    \/ \E d \in Dims : Construct(d)
    \/ ProcessCrash
    \/ \E id \in DocIds, e \in Embeddings, m \in MetaArgs :
            add_document(id, e, m)
    \/ \E id \in DocIds, e \in Embeddings, m \in MetaArgs, cp \in CrashPoints :
            add_document_crash(id, e, m, cp)
    \/ \E id \in DocIds : delete_document(id)
    \/ \E id \in DocIds, cp \in CrashPoints : delete_document_crash(id, cp)
    \/ \E q \in Queries, k \in Limits : search(q, k)

Spec == Init /\ [][Next]_vars

\* ------------------------------------------------- concurrent add_document
\* Two threads call add_document on one store, each once and with its own
\* document_id, without a lock; a step is a statement of the method.
Other(t) == CHOOSE u \in Threads : u # t

\* add_document entered: the length check
c_check(t, document_id, embedding, meta) ==
    /\ running
    /\ pc[t] = "idle"
    /\ frame[Other(t)].document_id # document_id
    /\ frame' = [frame EXCEPT ![t] = [document_id |-> document_id,
                                      embedding |-> embedding,
                                      metadata |-> meta,
                                      idx |-> -1]]
    /\ pc' = [pc EXCEPT ![t] =
                IF DimensionMismatch(embedding, dimension) THEN "raised" ELSE "add"]
    /\ UNCHANGED <<running, dimension, index, metadata, index_file,
                   metadata_file, last, deleted, high, raced>>

\* self.index.add(embedding_normalized)
c_add(t) ==
    /\ pc[t] = "add"
    /\ index' = IndexAdd(index, frame[t].embedding)
    /\ pc' = [pc EXCEPT ![t] = "read"]
    /\ UNCHANGED <<running, dimension, metadata, index_file, metadata_file,
                   last, deleted, high, frame, raced>>

\* both threads inside self.index.add at once, which faiss does not allow:
\* both vectors are stored, or one append is lost to the other
c_add_overlap(lost) ==
    /\ \A t \in Threads : pc[t] = "add"
    /\ index' = IF lost = 0
                THEN IndexAdd(IndexAdd(index, frame[1].embedding), frame[2].embedding)
                ELSE IndexAdd(index, frame[Other(lost)].embedding)
    /\ pc' = [t \in Threads |-> "read"]
    /\ UNCHANGED <<running, dimension, metadata, index_file, metadata_file,
                   last, deleted, high, frame, raced>>

\* idx = self.index.ntotal - 1
c_idx(t) ==
    /\ pc[t] = "read"
    /\ frame' = [frame EXCEPT ![t].idx = NewPosition(index)]
    /\ pc' = [pc EXCEPT ![t] = "put"]
    /\ raced' = (raced \/ pc[Other(t)] = "read")
    /\ UNCHANGED <<running, dimension, index, metadata, index_file,
                   metadata_file, last, deleted, high>>

\* self.metadata[document_id] = {...}
c_put(t) ==
    /\ pc[t] = "put"
    /\ metadata' = DictSet(metadata, frame[t].document_id,
                           [faiss_id |-> frame[t].idx,
                            metadata |-> IF frame[t].metadata = None
                                         THEN EmptyDict ELSE frame[t].metadata])
    /\ pc' = [pc EXCEPT ![t] = "write_index"]
    /\ UNCHANGED <<running, dimension, index, index_file, metadata_file,
                   last, deleted, high, frame, raced>>

\* _save_index: faiss.write_index
c_write_index(t) ==
    /\ pc[t] = "write_index"
    /\ index_file' = WriteIndex(index)
    /\ pc' = [pc EXCEPT ![t] = "write_metadata"]
    /\ UNCHANGED <<running, dimension, index, metadata, metadata_file,
                   last, deleted, high, frame, raced>>

\* _save_index: pickle.dump; then return idx
c_write_metadata(t) ==
    /\ pc[t] = "write_metadata"
    /\ metadata_file' = PickleDump(metadata)
    /\ pc' = [pc EXCEPT ![t] = "done"]
    /\ UNCHANGED <<running, dimension, index, metadata, index_file,
                   last, deleted, high, frame, raced>>

NextConc ==
    \/ \E t \in Threads, id \in DocIds, e \in Embeddings, m \in MetaArgs :
            c_check(t, id, e, m)
    \/ \E t \in Threads : c_add(t)
    \/ \E lost \in {0} \cup Threads : c_add_overlap(lost)
    \/ \E t \in Threads : c_idx(t)
    \/ \E t \in Threads : c_put(t)
    \/ \E t \in Threads : c_write_index(t)
    \/ \E t \in Threads : c_write_metadata(t)

SpecConc == Init /\ [][NextConc]_vars


\* ------------------------------------------------------------------ claims
\* the documents the store holds: the keys of the metadata table
LiveCount == Cardinality(Keys(metadata))

\* C1: count() is the number of live documents, the document_ids present in
\* the metadata table, not the number of vectors in the index; in particular
\* each delete_document that returns true lowers count() by exactly 1.
C1_DeleteLowersCount ==
    [][(last'.op = "delete" /\ last'.returned)
       => (/\ get_document_count(index') = get_document_count(index) - 1
           /\ get_document_count(index') = Cardinality(Keys(metadata')))]_vars

\* C2: add_document(id, v) immediately followed by search(v, limit), with
\* limit >= 1, returns a list whose first entry is id with rank 1 and
\* similarity 1.0, whatever deleted or overwritten documents left vectors
\* equal to v in the index.  (Stated for the case that no other live document
\* holds a vector equal to v.)
C2_SelfMatchFirst ==
    [][(/\ last.op = "add" /\ last.status = "ok"
        /\ last'.op = "search" /\ last'.embedding = last.embedding
        /\ last'.limit >= 1
        /\ \A i \in DOMAIN metadata :
              metadata[i].document_id # last.document_id
                  => index.xb[metadata[i].faiss_id + 1] # last.embedding)
       => (/\ last'.status = "ok"
           /\ Len(last'.results) >= 1
           /\ last'.results[1].document_id = last.document_id
           /\ last'.results[1].rank = 1
           /\ last'.results[1].similarity = Scale)]_vars

\* the store a call of add_document or delete_document is to leave, from the
\* state it is made in
Intended(call) ==
    IF call.op = "add"
    THEN AddMem(index, metadata, call.document_id, call.embedding, call.metadata)
    ELSE DelMem(index, metadata, call.document_id)

\* C3: Save is atomic with respect to a crash: whatever point of its save
\* step an add_document or delete_document dies at, the two files hold the
\* complete old snapshot or the complete new one.  (Stated for file writes
\* that are each atomic: no file is cut short.)
C3_SaveAtomic ==
    [][(/\ last'.op \in {"add", "delete"}
        /\ index_file' # Torn /\ metadata_file' # Torn)
       => \/ UNCHANGED <<index_file, metadata_file>>
          \/ /\ index_file' = WriteIndex(Intended(last').index)
             /\ metadata_file' = PickleDump(Intended(last').metadata)]_vars

\* C4: add_document with a document_id already in the metadata table fails
\* with DuplicateKey and changes nothing: not the existing record, not the
\* index, not the files.
C4_DuplicateKeyRejected ==
    [][(/\ running
        /\ last'.op = "add" /\ last'.status # "crash"
        /\ last'.document_id \in Keys(metadata)
        /\ ~DimensionMismatch(last'.embedding, dimension)
        /\ Len(last'.embedding) = index.d)
       => (/\ last'.status = "DuplicateKey"
           /\ UNCHANGED <<index, metadata, index_file, metadata_file>>)]_vars

\* C5: The ranks of the results of a search are 1, 2, ..., n in list order:
\* the positions of deleted documents take no rank.
C5_RanksHaveNoGaps ==
    last.op = "search" =>
        \A i \in 1..Len(last.results) : last.results[i].rank = i

\* C6: search with a limit greater than the number of live documents returns
\* exactly as many results as there are live documents.
C6_LimitAboveLiveReturnsAll ==
    (running /\ last.op = "search" /\ last.status = "ok" /\ last.limit > LiveCount)
        => Len(last.results) = LiveCount

\* C7: Once delete_document(id) has returned true, no search returns id until
\* id is added again, restarts of the store included.
C7_DeletedNeverReturned ==
    last.op = "search" =>
        \A i \in 1..Len(last.results) : last.results[i].document_id \notin deleted

\* a search has skipped the vector of a deleted document and returned a
\* live one behind it
C7_Witness ==
    /\ last.op = "search"
    /\ deleted # {}
    /\ last.results # <<>>
    /\ last.results[1].rank > 1

\* C8: Round trip: after any completed add_document or delete_document, a
\* fresh store made from the files answers every search as the store that
\* wrote them does, and has the same count().
C8_RoundTrip ==
    (running /\ last.op \in {"add", "delete"}) =>
        LET fresh == NewVectorStore(dimension)
        IN  /\ fresh.ok
            /\ get_document_count(fresh.index) = get_document_count(index)
            /\ \A q \in Queries, k \in Limits :
                    SearchOutcomes(dimension, fresh.index, fresh.metadata, q, k)
                        = SearchOutcomes(dimension, index, metadata, q, k)

\* a delete has been saved by a store that holds a live document and the
\* vector of a deleted one
C8_Witness ==
    /\ running
    /\ last.op = "delete" /\ last.returned
    /\ metadata # <<>>
    /\ ntotal(index) > Len(metadata)
    /\ index_file = WriteIndex(index)

\* C9: add_document with an embedding whose length is not the configured
\* dimension fails with the dimension-mismatch error before any mutation:
\* count(), index, metadata table and files are unchanged.
C9_WrongLengthRejected ==
    [][(/\ running
        /\ last'.op = "add"
        /\ Len(last'.embedding) # dimension)
       => (/\ last'.status = "ValueError"
           /\ running'
           /\ get_document_count(index') = get_document_count(index)
           /\ UNCHANGED <<index, metadata, index_file, metadata_file>>)]_vars

\* an add of a wrong-length embedding has been refused by a store that holds
\* documents
C9_Witness ==
    /\ running
    /\ last.op = "add" /\ last.status = "ValueError"
    /\ Len(last.embedding) # dimension
    /\ metadata # <<>>

\* C10: Constructing a store when only one of the two files is present fails
\* (StorageCorruption): the store never starts on an incomplete snapshot.
C10_IncompleteSnapshotRejected ==
    (last.op = "construct" /\ Exists(index_file) # Exists(metadata_file))
        => (~running /\ last.status # "ok")

\* C11: delete_document with a document_id that is not present returns false
\* and alters nothing: index, metadata table, count() and the files are
\* unchanged (no save is made).
C11_DeleteUnknownIsNoOp ==
    [][(/\ running
        /\ last'.op = "delete"
        /\ last'.document_id \notin Keys(metadata))
       => (/\ last'.status = "ok"
           /\ last'.returned = FALSE
           /\ running'
           /\ get_document_count(index') = get_document_count(index)
           /\ UNCHANGED <<index, metadata, index_file, metadata_file>>)]_vars

\* a delete of an absent id has returned false in a store that holds a
\* document and whose files exist
C11_Witness ==
    /\ running
    /\ last.op = "delete" /\ last.status = "ok" /\ ~last.returned
    /\ last.document_id \notin Keys(metadata)
    /\ metadata # <<>>
    /\ Exists(metadata_file)

\* C12: The positions add_document returns start at 0, each is the next
\* free slot of the index and strictly greater than every position returned
\* before; none is reused, across adds, deletes and restarts on the same
\* directory.
C12_PositionsIncrease ==
    [][(last'.op = "add" /\ last'.status = "ok")
       => (/\ last'.idx = ntotal(index)
           /\ last'.idx > high
           /\ (high = -1 => last'.idx = 0))]_vars

\* after a delete and a restart, an add has returned a position above the
\* earlier ones
C12_Witness ==
    /\ running
    /\ last.op = "add" /\ last.status = "ok"
    /\ last.idx = 2
    /\ deleted # {}
    /\ Len(metadata) = 1

\* C13: Constructing a store with a dimension other than that of the saved
\* vectors fails at load time: no running store has a configured dimension
\* that differs from the dimension of its index.
C13_DimensionMismatchRejected ==
    running => dimension = index.d

\* two document_ids of the metadata table are mapped to one position
Collision ==
    \E i, j \in DOMAIN metadata :
        i # j /\ metadata[i].faiss_id = metadata[j].faiss_id

\* both threads have stored their entry in the metadata table
BothStored ==
    \A t \in Threads : pc[t] \in {"write_index", "write_metadata", "done"}

\* C14: Without mutual exclusion, two add_document calls for different
\* document_ids that both append before either reads index.ntotal - 1 leave
\* both ids mapped to the same position, and no execution in which the calls
\* do not interleave that way does.
C14_CollisionIffRaced ==
    /\ Collision => raced
    /\ (BothStored /\ raced) => Collision

\* both calls have returned and their two ids share a position
C14_Witness ==
    /\ \A t \in Threads : pc[t] = "done"
    /\ Collision
    /\ ntotal(index) = 2

\* no document_id occurs in two rows of a result list
NoRepeatedId(results) ==
    \A i, j \in DOMAIN results :
        results[i].document_id = results[j].document_id => i = j

\* C15: Under sequential use, in every state reached by add_document,
\* delete_document and saving and loading, no two live document_ids are mapped
\* to the same position and every recorded position is below the number of
\* vectors in the index; so no result list of search holds a document_id twice.
C15_PositionsInjective ==
    running =>
        /\ \A i, j \in DOMAIN metadata :
                metadata[i].faiss_id = metadata[j].faiss_id => i = j
        /\ \A i, j \in DOMAIN metadata :
                metadata[i].document_id = metadata[j].document_id => i = j
        /\ \A i \in DOMAIN metadata :
                metadata[i].faiss_id \in 0 .. ntotal(index) - 1
        /\ (last.op = "search" /\ last.status = "ok") => NoRepeatedId(last.results)

\* a search listing two documents of a store that holds a tombstone and was
\* loaded from its files
C15_Witness ==
    /\ running
    /\ last.op = "search"
    /\ last.status = "ok"
    /\ Len(last.results) = 2
    /\ Len(metadata) = 2
    /\ ntotal(index) = 3
    /\ index_file = WriteIndex(index)
    /\ metadata_file = PickleDump(metadata)

\* both files are present and neither was cut short by a crash
FilesWhole == index_file.kind = "faiss" /\ metadata_file.kind = "pickle"

\* C16: With each file write taken as atomic, at every point where the process
\* can die during a sequence of add_document and delete_document calls, every
\* position recorded in the metadata file is below the vector count of the
\* index file, because _save_index writes the index file first; so a store
\* loaded from two present files holds no document whose position has no vector.
C16_DiskPositionsHaveVectors ==
    /\ FilesWhole =>
            \A i \in DOMAIN metadata_file.obj :
                metadata_file.obj[i].faiss_id \in 0 .. index_file.ntotal - 1
    /\ (running /\ last.op = "construct" /\ FilesWhole) =>
            \A i \in DOMAIN metadata :
                metadata[i].faiss_id \in 0 .. ntotal(index) - 1

\* the process died in add_document between the two writes: the index file
\* holds a vector more than the metadata file has records
C16_Witness ==
    /\ ~running
    /\ last.op = "add"
    /\ last.crash_point = "after_index"
    /\ FilesWhole
    /\ Len(metadata_file.obj) = 1
    /\ index_file.ntotal = 2

\* row a of an index answer comes strictly before row b: the smaller
\* distance, and among equal distances the lower position
RowBefore(a, b) ==
    a.distance < b.distance \/ (a.distance = b.distance /\ a.idx < b.idx)

C18_DeleteRemovesOnlyTheRecord ==
    [][(/\ running
        /\ last'.op = "delete"
        /\ last'.status = "ok"
        /\ last'.returned)
       => (/\ index' = index
           /\ Keys(metadata') = Keys(metadata) \ {last'.document_id}
           /\ Len(metadata') = Len(metadata) - 1
           /\ \A id \in Keys(metadata') :
                    Lookup(metadata', id) = Lookup(metadata, id))]_vars

\* the document at position 0 was deleted; the other one is still at
\* position 1 of a two-vector index
C18_Witness ==
    /\ running
    /\ last.op = "delete"
    /\ last.status = "ok"
    /\ last.returned
    /\ ntotal(index) = 2
    /\ Len(metadata) = 1
    /\ metadata[1].faiss_id = 1
    /\ metadata[1].document_id # last.document_id

\* C19: In every reachable state, search(q, limit) with limit >= 0 returns at
\* most min(limit, number of live documents) results, each returned
\* document_id is in the metadata table and comes with the metadata stored for
\* it there, and search changes neither the index, nor the metadata table, nor
\* the files.
C19_SearchBoundedAndReadOnly ==
    [][(running /\ last'.op = "search" /\ last'.limit >= 0)
       => (/\ UNCHANGED <<running, dimension, index, metadata,
                          index_file, metadata_file>>
           /\ last'.status = "ok" =>
                /\ Len(last'.results) <= Min(last'.limit, LiveCount)
                /\ \A i \in DOMAIN last'.results :
                        /\ last'.results[i].document_id \in Keys(metadata)
                        /\ last'.results[i].metadata
                              = Lookup(metadata, last'.results[i].document_id).metadata)]_vars

\* a search with limit 1 on a store of two live documents and a tombstone
\* has returned one of them, with the metadata it was added with
C19_Witness ==
    /\ running
    /\ last.op = "search"
    /\ last.status = "ok"
    /\ last.limit = 1
    /\ Len(last.results) = 1
    /\ last.results[1].metadata # EmptyDict
    /\ Len(metadata) = 2
    /\ ntotal(index) = 3

\* the scales a store may be asked to score with, the baseline among them
ConfiguredScales == {Scale \div 2, Scale}

\* the squared distance of the vector of a result row to the last query
MatchedDistance(row) ==
    SqL2(index.xb[Lookup(metadata, row.document_id).faiss_id + 1], last.embedding)

\* the rows of the last search follow the formula for scale s (a similarity
\* is held in units of 1 / Scale)
ScoredWith(s) ==
    /\ \A i \in DOMAIN last.results :
         LET sim == last.results[i].similarity
             dist == MatchedDistance(last.results[i])
         IN  /\ sim \in 0..Scale
             /\ sim * s = Scale * (s - Min(dist, s))
             /\ sim = Scale <=> dist = 0
             /\ sim = 0 <=> dist >= s
    /\ \A i, j \in DOMAIN last.results :
         MatchedDistance(last.results[i]) <= MatchedDistance(last.results[j])
            => last.results[i].similarity >= last.results[j].similarity

====
